---- MODULE Spec2Model ----
(***************************************************************************)
(* sqleak: a database/sql driver wrapper that attaches a leak monitor to   *)
(* every statement, cursor (rows) and transaction it hands out.            *)
(*                                                                         *)
(* The model follows the Go sources:                                       *)
(*   sqleak.go    stackPool, monitor, newMonitor, options, Open, WrapDriver*)
(*   driver.go    monitoredDriver                                          *)
(*   connector.go monitoredConnector, dsnConnector                         *)
(*   conn.go      monitoredConn                                            *)
(*   stmt.go      monitoredStmt                                            *)
(*   rows.go      monitoredRows                                            *)
(*   tx.go        monitoredTx                                              *)
(*                                                                         *)
(* Every proxy method is one action.  Close, Commit and Rollback are two   *)
(* steps (markClosed, then the wrapped call), because the timer callback   *)
(* of time.AfterFunc runs on its own goroutine and can run between them.   *)
(* Time is abstracted: a timer callback may run at any moment after the    *)
(* monitor was created.  The monitor's closed flag is a plain field; each  *)
(* access to it is one step and the steps of different goroutines          *)
(* interleave freely.                                                      *)
(***************************************************************************)
EXTENDS Integers, Sequences, FiniteSets, TLC

(***************************************************************************)
(* Bounds of the model.                                                    *)
(***************************************************************************)
MaxRes == 2     \* monitored resources (statements, cursors, transactions)
MaxConn == 1    \* connections opened through the driver or connector proxy

(***************************************************************************)
(* Program constants.                                                      *)
(***************************************************************************)
BufSize == 8 * 1024            \* make([]byte, 8*1024) in stackPool.New
DefaultTimeout == 30 * 1000    \* 30*time.Second, in milliseconds

\* Values the environment (the application, database/sql, the wrapped driver)
\* supplies.
OptTimeouts == {100}                 \* WithTimeout arguments, milliseconds
StackLens == {300, BufSize + 900}    \* length of the stack text of a caller
WrappedErrs == {"nil", "errDriver"}  \* what a wrapped call returns as error
Isolations == {"Default", "Serializable"}

\* Optional interfaces of database/sql/driver a wrapped object may implement.
AllConnCaps == {"Pinger", "Execer", "ExecerContext", "Queryer", "QueryerContext",
                "ConnPrepareContext", "ConnBeginTx", "SessionResetter",
                "NamedValueChecker"}
AllStmtCaps == {"StmtExecContext", "StmtQueryContext", "NamedValueChecker"}
AllRowsCaps == {"RowsColumnTypePrecisionScale", "RowsColumnTypeNullable",
                "RowsColumnTypeLength", "RowsColumnTypeDatabaseTypeName",
                "RowsNextResultSet"}
Ctxs == {"never", "before", "during"}

Min(a, b) == IF a < b THEN a ELSE b

VARIABLES
    env,        \* what the environment supplies (the options given to Open or
                \* WrapDriver among it) and which calls are observed
    root,       \* the monitoredDriver: [driver, timeout]
    orig,       \* the driver d handed to Open / WrapDriver: "plain" or "ctx"
    connector,  \* the connector built by Open: "none", "monitored", "dsn"
    conns,      \* monitoredConn proxies: sequence of [caps, timeout]
    res,        \* monitored proxies with their monitor, in creation order
    bufs,       \* backing arrays made by stackPool.New: what they hold
    pool,       \* stackPool: the monitors whose &mon.stack was Put
    log,        \* the records written by log.Printf
    last        \* outcome of the last proxy call

vars == <<env, root, orig, connector, conns, res, bufs, pool, log, last>>

Monitors == 1..Len(res)
Conns == 1..Len(conns)

\* A call of method f of the wrapped object, which returned ret.
W(f, ret) == [f |-> f, ret |-> ret]

\* The outcome of a proxy call: the method, the proxy it was called on, its
\* arguments, the value and error returned, and the methods of the wrapped
\* object invoked on the way, in order.
NoArg == [ctx |-> "never", named |-> FALSE, Isolation |-> "Default", ReadOnly |-> FALSE]
CtxArg(ctx) == [NoArg EXCEPT !.ctx = ctx]
StmtArg(ctx, named) == [NoArg EXCEPT !.ctx = ctx, !.named = named]
NoCall == [op |-> "none", on |-> 0, arg |-> NoArg, val |-> "nil", err |-> "nil",
           calls |-> <<>>, made |-> 0]
\* last holds the outcome of the last call among the observed methods, and
\* made, the number of monitors newMonitor created during the call.
Observe(o) ==
    IF o.op \in env.watch
    THEN [op |-> o.op, on |-> o.on, arg |-> o.arg, val |-> o.val, err |-> o.err,
          calls |-> o.calls, made |-> Len(res') - Len(res)]
    ELSE NoCall
OutcomeArg(op, on, arg, val, err, calls) ==
    Observe([op |-> op, on |-> on, arg |-> arg, val |-> val, err |-> err,
             calls |-> calls])
Outcome(op, on, val, err, calls) == OutcomeArg(op, on, NoArg, val, err, calls)

(***************************************************************************)
(* driver.go, sqleak.go: the root proxy and its configuration.             *)
(* A driver value is modelled by what its dynamic type implements:         *)
(*   "ctx"       driver.Driver and driver.DriverContext                    *)
(*   "plain"     driver.Driver only                                        *)
(*   "embedded"  struct{ driver.Driver }{d}: driver.Driver only            *)
(***************************************************************************)
ImplementsDriverContext(d) == d = "ctx"

newMonitoredDriver(d, timeout) ==
    IF ImplementsDriverContext(d)
    THEN [driver |-> d, timeout |-> timeout]
    ELSE [driver |-> "embedded", timeout |-> timeout]

WithTimeout(ld, timeout) == [ld EXCEPT !.timeout = timeout]

\* f is modelled by the kind of driver it returns.
WithDriverWrapper(ld, f) == [ld EXCEPT !.driver = f]

ApplyOption(ld, opt) ==
    IF opt.name = "WithTimeout" THEN WithTimeout(ld, opt.timeout)
    ELSE WithDriverWrapper(ld, opt.wrapper)

RECURSIVE ApplyOptions(_, _)
ApplyOptions(ld, opts) ==
    IF opts = <<>> THEN ld
    ELSE ApplyOptions(ApplyOption(ld, Head(opts)), Tail(opts))

OptionLists ==
    LET withTimeout == {[name |-> "WithTimeout", timeout |-> t, wrapper |-> "none"] :
                           t \in OptTimeouts}
        withWrapper == {[name |-> "WithDriverWrapper", timeout |-> 0, wrapper |-> w] :
                           w \in {"plain", "ctx"}}
    IN  {<<>>}
        \cup {<<o>> : o \in withTimeout \cup withWrapper}
        \cup {<<o, p>> : o \in withWrapper, p \in withTimeout}

\* WrapDriver, and Open up to the loop over the options.
WrapDriver(d, opts) == ApplyOptions(newMonitoredDriver(d, DefaultTimeout), opts)

newMonitoredConn(caps, timeout) == [caps |-> caps, timeout |-> timeout]

\* The state after WrapDriver(d, opts...) for a driver d among origs and
\* options among optLists, under environment e.
InitWith(e, origs, optLists) ==
    /\ orig \in origs
    /\ \E opts \in optLists :
        /\ env = [e EXCEPT !.opts = opts]
        /\ root = WrapDriver(orig, opts)
    /\ connector = "none"
    /\ conns = <<>>
    /\ res = <<>>
    /\ bufs = <<>>
    /\ pool = {}
    /\ log = <<>>
    /\ last = NoCall

\* monitoredDriver.OpenConnector: the type assertion on d.driver has no
\* comma-ok form and panics when the driver held is not a DriverContext.
OpenConnectorOutcome(op, e) ==
    IF ~ImplementsDriverContext(root.driver)
    THEN Outcome(op, 0, "nil", "panic", <<>>)
    ELSE IF e # "nil"
    THEN Outcome(op, 0, "nil", e, <<W("OpenConnector", e)>>)
    ELSE Outcome(op, 0, "monitoredConnector", "nil", <<W("OpenConnector", "nil")>>)

\* monitoredDriver.OpenConnector called by database/sql on a registered driver.
DriverOpenConnector ==
    /\ UNCHANGED <<env, root, orig, conns, res, bufs, pool, log>>
    /\ connector = "none"
    /\ \E e \in env.errs :
        /\ last' = OpenConnectorOutcome("OpenConnector", e)
        /\ connector' = IF ImplementsDriverContext(root.driver) /\ e = "nil"
                        THEN "monitored" ELSE connector

\* Open, after the options: the connector handed to sql.OpenDB.
OpenDB ==
    /\ UNCHANGED <<env, root, orig, conns, res, bufs, pool, log>>
    /\ connector = "none"
    /\ IF ImplementsDriverContext(orig)
       THEN \E e \in env.errs :
              /\ last' = OpenConnectorOutcome("Open", e)
              /\ connector' = IF ImplementsDriverContext(root.driver) /\ e = "nil"
                              THEN "monitored" ELSE connector
       ELSE /\ last' = Outcome("Open", 0, "dsnConnector", "nil", <<>>)
            /\ connector' = "dsn"

\* monitoredDriver.Open: the wrapped Open returns e, or a connection whose
\* dynamic type implements the optional interfaces caps.
OpenOutcome(op, e) ==
    IF e # "nil" THEN Outcome(op, 0, "nil", e, <<W("Open", e)>>)
    ELSE Outcome(op, 0, "monitoredConn", "nil", <<W("Open", "nil")>>)

\* Mutant: the connection proxy is given a monitor of its own.
DriverOpen_monitored ==
    /\ UNCHANGED <<env, root, orig, connector, pool, log>>
    /\ Len(conns) < MaxConn
    /\ Len(res) < MaxRes
    /\ last' = OpenOutcome("Driver.Open", "nil")
    /\ conns' = Append(conns, newMonitoredConn(AllConnCaps, root.timeout))
    /\ bufs' = Append(bufs, [who |-> Len(res) + 1, n |-> 300])
    /\ res' = Append(res,
                [kind |-> "monitoredConn", caps |-> {}, conn |-> 0, parent |-> 0,
                 busy |-> "none", first |-> "none", early |-> FALSE, depth |-> 300,
                 monitor |-> [timeout |-> root.timeout,
                              stack |-> [arr |-> Len(bufs) + 1, n |-> 300],
                              closed |-> FALSE, resource |-> "Conn", fired |-> FALSE]])

DriverOpen ==
    /\ UNCHANGED <<env, root, orig, connector, res, bufs, pool, log>>
    /\ Len(conns) < MaxConn
    /\ \E e \in env.errs, caps \in env.connCaps :
        /\ last' = OpenOutcome("Driver.Open", e)
        /\ conns' = IF e # "nil" THEN conns
                    ELSE Append(conns, newMonitoredConn(caps, root.timeout))

\* dsnConnector.Connect: c.driver.Open(c.dsn), c.driver being the root proxy.
DsnConnect ==
    /\ UNCHANGED <<env, root, orig, connector, res, bufs, pool, log>>
    /\ connector = "dsn"
    /\ Len(conns) < MaxConn
    /\ \E e \in env.errs, caps \in env.connCaps :
        /\ last' = OpenOutcome("dsnConnector.Connect", e)
        /\ conns' = IF e # "nil" THEN conns
                    ELSE Append(conns, newMonitoredConn(caps, root.timeout))

\* monitoredConnector.Connect.
ConnectorConnect ==
    /\ UNCHANGED <<env, root, orig, connector, res, bufs, pool, log>>
    /\ connector = "monitored"
    /\ Len(conns) < MaxConn
    /\ \E e \in env.errs, caps \in env.connCaps :
        /\ last' = IF e # "nil"
                   THEN Outcome("Connector.Connect", 0, "nil", e, <<W("Connect", e)>>)
                   ELSE Outcome("Connector.Connect", 0, "monitoredConn", "nil",
                                <<W("Connect", "nil")>>)
        /\ conns' = IF e # "nil" THEN conns
                    ELSE Append(conns, newMonitoredConn(caps, root.timeout))

(***************************************************************************)
(* sqleak.go: stackPool and monitor.                                       *)
(*                                                                         *)
(* The pool holds pointers to slices.  stackPool.New makes a fresh backing *)
(* array of BufSize bytes; the timer callback Puts &mon.stack, the         *)
(* monitor's own slice header, whose length is the length of the stack it  *)
(* captured.  A pool entry is therefore named by the monitor whose stack   *)
(* field it points to, and 0 stands for "New was called".                  *)
(* sync.Pool.Get may return any pooled item or call New.                   *)
(***************************************************************************)
stackPoolNew == [arr |-> Len(bufs) + 1, len |-> BufSize]

stackPoolGet(src) ==
    IF src = 0 THEN stackPoolNew
    ELSE [arr |-> res[src].monitor.stack.arr, len |-> res[src].monitor.stack.n]

\* runtime.Stack(buf, false): writes at most len(buf) bytes, returns the count.
runtimeStack(buflen, L) == Min(L, buflen)

newMonitor(timeout, resource, buf, L) ==
    [timeout |-> timeout,
     stack |-> [arr |-> buf.arr, n |-> runtimeStack(buf.len, L)],
     closed |-> FALSE,
     resource |-> resource,
     fired |-> FALSE]

\* Mutant: markClosed also lets go of the captured stack.
markClosed_dropsStack(mon) == [mon EXCEPT !.closed = TRUE, !.stack.n = 0]

\* Mutant: markClosed flips the flag, so that a second call reopens.
markClosed_toggles(mon) == [mon EXCEPT !.closed = ~@]

\* Mutant: markClosed forgets the assignment.
markClosed_forgets(mon) == mon

markClosed(mon) == [mon EXCEPT !.closed = TRUE]

\* string(mon.stack): the first n bytes of the backing array, named by the
\* monitor whose capture wrote them last.
StackText(stack) == [who |-> bufs[stack.arr].who, n |-> stack.n]

\* Mutant: the callback tests the flag the wrong way round.
ShouldWarn_inverted(mon) == mon.closed

\* The condition under which the callback of time.AfterFunc logs.
ShouldWarn(mon) == ~mon.closed

\* The record log.Printf writes (mon: the monitor that wrote it).
LogRecord(m) ==
    [mon |-> m,
     resource |-> res[m].monitor.resource,
     timeout |-> res[m].monitor.timeout,
     stack |-> StackText(res[m].monitor.stack)]

(***************************************************************************)
(* The proxies that carry a monitor.  conn is the monitoredConn a          *)
(* statement points to; parent records the statement a cursor came from    *)
(* (0: from the connection); early records that markClosed ran before the  *)
(* timer callback; busy names the wrapped call in progress, first the      *)
(* method that called markClosed first, depth the length of the stack text *)
(* of the goroutine that created the proxy.                                *)
(***************************************************************************)
newMonitoredStmt(caps, c, buf, L) ==
    [kind |-> "monitoredStmt", caps |-> caps, conn |-> c, parent |-> 0,
     busy |-> "none", first |-> "none", early |-> FALSE, depth |-> L,
     monitor |-> newMonitor(conns[c].timeout, "Stmt", buf, L)]

newMonitoredRows(caps, timeout, buf, L) ==
    [kind |-> "monitoredRows", caps |-> caps, conn |-> 0, parent |-> 0,
     busy |-> "none", first |-> "none", early |-> FALSE, depth |-> L,
     monitor |-> newMonitor(timeout, "Rows", buf, L)]

newMonitoredTx(timeout, buf, L) ==
    [kind |-> "monitoredTx", caps |-> {}, conn |-> 0, parent |-> 0,
     busy |-> "none", first |-> "none", early |-> FALSE, depth |-> L,
     monitor |-> newMonitor(timeout, "Tx", buf, L)]

\* Mutant: Get hands out a pooled buffer and leaves it in the pool.
Track_keepsPooled(p, src) ==
    /\ Len(res) < MaxRes
    /\ res' = Append(res, p)
    /\ pool' = pool
    /\ bufs' = LET c == [who |-> Len(res) + 1, n |-> p.monitor.stack.n]
               IN  IF src = 0 THEN Append(bufs, c)
                   ELSE [bufs EXCEPT ![p.monitor.stack.arr] = c]

\* The state after newMonitor returned proxy p's monitor, its buffer taken
\* from pool entry src.
Track(p, src) ==
    /\ Len(res) < MaxRes
    /\ res' = Append(res, p)
    /\ pool' = pool \ {src}
    /\ bufs' = LET c == [who |-> Len(res) + 1, n |-> p.monitor.stack.n]
               IN  IF src = 0 THEN Append(bufs, c)
                   ELSE [bufs EXCEPT ![p.monitor.stack.arr] = c]

NoTrack == UNCHANGED <<res, bufs, pool>>

\* Mutant: the Put is inside the if, so a closed monitor keeps its buffer.
TimerFire_putsOnlyOnWarn(m) ==
    /\ m \in Monitors
    /\ ~res[m].monitor.fired
    /\ log' = IF ShouldWarn(res[m].monitor) THEN Append(log, LogRecord(m)) ELSE log
    /\ pool' = IF ShouldWarn(res[m].monitor) THEN pool \cup {m} ELSE pool
    /\ res' = [res EXCEPT ![m].monitor.fired = TRUE]
    /\ UNCHANGED <<env, root, orig, connector, conns, bufs, last>>

\* The callback of time.AfterFunc in newMonitor.
TimerFire(m) ==
    /\ m \in Monitors
    /\ ~res[m].monitor.fired
    /\ log' = IF ShouldWarn(res[m].monitor) THEN Append(log, LogRecord(m)) ELSE log
    /\ pool' = pool \cup {m}
    /\ res' = [res EXCEPT ![m].monitor.fired = TRUE]
    /\ UNCHANGED <<env, root, orig, connector, conns, bufs, last>>

\* sync.Pool drops pooled items at garbage collection.
PoolDrop ==
    /\ \E m \in pool : pool' = pool \ {m}
    /\ UNCHANGED <<env, root, orig, connector, conns, res, bufs, log, last>>

(***************************************************************************)
(* conn.go: monitoredConn.  c is the connection proxy called.              *)
(* A context argument is modelled by when it is cancelled: "never",        *)
(* "before" the call, or "during" the first wrapped call the method makes. *)
(***************************************************************************)
Has(caps, iface) == iface \in caps
Frame == UNCHANGED <<env, root, orig, connector, conns, log>>
Stateless == UNCHANGED <<env, root, orig, connector, conns, res, bufs, pool, log>>

\* Mutant: the type assertion without the comma-ok form.
Dispatch_unprobed(op, on, caps, iface, notImpl, okVal, e) ==
    IF ~Has(caps, iface) THEN Outcome(op, on, "nil", "panic", <<>>)
    ELSE Outcome(op, on, IF e = "nil" THEN okVal ELSE "nil", e, <<W(op, e)>>)

\* A probe-then-delegate method with no child: notImpl is what it returns
\* when the wrapped object lacks the interface.
Dispatch(op, on, caps, iface, notImpl, okVal, e) ==
    IF ~Has(caps, iface) THEN Outcome(op, on, notImpl.val, notImpl.err, <<>>)
    ELSE Outcome(op, on, IF e = "nil" THEN okVal ELSE "nil", e, <<W(op, e)>>)

ConnPing(c) ==
    /\ Stateless
    /\ \E e \in env.errs :
        last' = Dispatch("Ping", c, conns[c].caps, "Pinger",
                         [val |-> "nil", err |-> "nil"], "nil", e)

ConnExec(c) ==
    /\ Stateless
    /\ \E e \in env.errs :
        last' = Dispatch("Exec", c, conns[c].caps, "Execer",
                         [val |-> "nil", err |-> "ErrSkip"], "result", e)

ConnExecContext(c) ==
    /\ Stateless
    /\ \E e \in env.errs :
        last' = Dispatch("ExecContext", c, conns[c].caps, "ExecerContext",
                         [val |-> "nil", err |-> "ErrSkip"], "result", e)

ConnResetSession(c) ==
    /\ Stateless
    /\ \E e \in env.errs :
        last' = Dispatch("ResetSession", c, conns[c].caps, "SessionResetter",
                         [val |-> "nil", err |-> "nil"], "nil", e)

\* monitoredConn.CheckNamedValue, as an outcome: monitoredStmt uses it too.
ConnCheckNamedValue(op, on, c, e) ==
    IF ~Has(conns[c].caps, "NamedValueChecker")
    THEN Outcome(op, on, "nil", "ErrSkip", <<>>)
    ELSE Outcome(op, on, "nil", e, <<W("Conn.CheckNamedValue", e)>>)

ConnCheckNamedValueCall(c) ==
    /\ Stateless
    /\ \E e \in env.errs :
        last' = ConnCheckNamedValue("Conn.CheckNamedValue", c, c, e)

\* What a wrapped call that fails returns.
Failures == env.errs \ {"nil"}

\* Query and QueryContext: probe, delegate, wrap the rows.
ConnQueryVia(op, iface, c) ==
    /\ IF ~Has(conns[c].caps, iface)
       THEN /\ NoTrack
            /\ last' = Outcome(op, c, "nil", "ErrSkip", <<>>)
       ELSE \/ \E e \in Failures :
                /\ NoTrack
                /\ last' = Outcome(op, c, "nil", e, <<W(op, e)>>)
            \/ \E rc \in env.rowsCaps, src \in pool \cup {0}, L \in env.stackLens :
                /\ Track(newMonitoredRows(rc, conns[c].timeout, stackPoolGet(src), L), src)
                /\ last' = Outcome(op, c, "monitoredRows", "nil", <<W(op, "nil")>>)
    /\ Frame

ConnQuery(c) == ConnQueryVia("Query", "Queryer", c)

ConnQueryContext(c) == ConnQueryVia("QueryContext", "QueryerContext", c)

ConnPrepare(c) ==
    /\ \/ \E e \in Failures :
            /\ NoTrack
            /\ last' = Outcome("Prepare", c, "nil", e, <<W("Prepare", e)>>)
       \/ \E sc \in env.stmtCaps, src \in pool \cup {0}, L \in env.stackLens :
            /\ Track(newMonitoredStmt(sc, c, stackPoolGet(src), L), src)
            /\ last' = Outcome("Prepare", c, "monitoredStmt", "nil", <<W("Prepare", "nil")>>)
    /\ Frame

\* Mutant: the select is left out.
PollDone_never(ctx, when) == FALSE

\* The select on ctx.Done() with a default case: one non-blocking poll.
\* when: "entry" if no wrapped call was made yet, "afterCall" otherwise.
PollDone(ctx, when) ==
    IF when = "entry" THEN ctx = "before" ELSE ctx \in {"before", "during"}

\* Mutant: on cancellation the statement is wrapped and left open, and the
\* cancellation error returned.
ConnPrepareContext_leaksOnCancel(c) ==
    /\ \E ctx \in env.ctxs :
        IF Has(conns[c].caps, "ConnPrepareContext")
        THEN \/ \E e \in Failures :
                /\ NoTrack
                /\ last' = OutcomeArg("PrepareContext", c, CtxArg(ctx), "nil", e,
                                      <<W("PrepareContext", e)>>)
             \/ \E sc \in env.stmtCaps, src \in pool \cup {0}, L \in env.stackLens :
                /\ Track(newMonitoredStmt(sc, c, stackPoolGet(src), L), src)
                /\ last' = OutcomeArg("PrepareContext", c, CtxArg(ctx), "monitoredStmt", "nil",
                                      <<W("PrepareContext", "nil")>>)
        ELSE \/ \E e \in Failures :
                /\ NoTrack
                /\ last' = OutcomeArg("PrepareContext", c, CtxArg(ctx), "nil", e,
                                      <<W("Prepare", e)>>)
             \/ \E sc \in env.stmtCaps, src \in pool \cup {0}, L \in env.stackLens :
                /\ Track(newMonitoredStmt(sc, c, stackPoolGet(src), L), src)
                /\ last' = OutcomeArg("PrepareContext", c, CtxArg(ctx),
                                      IF PollDone(ctx, "afterCall") THEN "nil"
                                      ELSE "monitoredStmt",
                                      IF PollDone(ctx, "afterCall") THEN "ctxErr" ELSE "nil",
                                      <<W("Prepare", "nil")>>)
    /\ Frame

ConnPrepareContext(c) ==
    /\ \E ctx \in env.ctxs :
        IF Has(conns[c].caps, "ConnPrepareContext")
        THEN \/ \E e \in Failures :
                /\ NoTrack
                /\ last' = OutcomeArg("PrepareContext", c, CtxArg(ctx), "nil", e,
                                      <<W("PrepareContext", e)>>)
             \/ \E sc \in env.stmtCaps, src \in pool \cup {0}, L \in env.stackLens :
                /\ Track(newMonitoredStmt(sc, c, stackPoolGet(src), L), src)
                /\ last' = OutcomeArg("PrepareContext", c, CtxArg(ctx), "monitoredStmt", "nil",
                                      <<W("PrepareContext", "nil")>>)
        ELSE \/ \E e \in Failures :
                /\ NoTrack
                /\ last' = OutcomeArg("PrepareContext", c, CtxArg(ctx), "nil", e,
                                      <<W("Prepare", e)>>)
             \/ /\ PollDone(ctx, "afterCall")
                /\ NoTrack
                /\ last' = OutcomeArg("PrepareContext", c, CtxArg(ctx), "nil", "ctxErr",
                                      <<W("Prepare", "nil"), W("Stmt.Close", "ignored")>>)
             \/ /\ ~PollDone(ctx, "afterCall")
                /\ \E sc \in env.stmtCaps, src \in pool \cup {0}, L \in env.stackLens :
                    /\ Track(newMonitoredStmt(sc, c, stackPoolGet(src), L), src)
                    /\ last' = OutcomeArg("PrepareContext", c, CtxArg(ctx),
                                          "monitoredStmt", "nil", <<W("Prepare", "nil")>>)
    /\ Frame

\* Mutant: the transaction proxy is built before the error is looked at.
ConnBegin_wrapsFirst(c) ==
    /\ \E e \in Failures \cup {"nil"}, src \in pool \cup {0}, L \in env.stackLens :
            /\ Track(newMonitoredTx(conns[c].timeout, stackPoolGet(src), L), src)
            /\ last' = Outcome("Begin", c, IF e = "nil" THEN "monitoredTx" ELSE "nil", e,
                               <<W("Begin", e)>>)
    /\ Frame

ConnBegin(c) ==
    /\ \/ \E e \in Failures :
            /\ NoTrack
            /\ last' = Outcome("Begin", c, "nil", e, <<W("Begin", e)>>)
       \/ \E src \in pool \cup {0}, L \in env.stackLens :
            /\ Track(newMonitoredTx(conns[c].timeout, stackPoolGet(src), L), src)
            /\ last' = Outcome("Begin", c, "monitoredTx", "nil", <<W("Begin", "nil")>>)
    /\ Frame

\* Mutant: the check of opts.ReadOnly is left out.
TxOptionsError_ignoresReadOnly(opts) ==
    IF opts.Isolation # "Default" THEN "errIsolation" ELSE "nil"

\* The checks of BeginTx on the options when the wrapped connection is no
\* ConnBeginTx: the error returned, "nil" if the options pass.
TxOptionsError(opts) ==
    IF opts.Isolation # "Default" THEN "errIsolation"
    ELSE IF opts.ReadOnly THEN "errReadOnly"
    ELSE "nil"

ConnBeginTx(c) ==
    /\ \E iso \in Isolations, ro \in BOOLEAN :
        LET opts == [NoArg EXCEPT !.Isolation = iso, !.ReadOnly = ro]
            call == IF Has(conns[c].caps, "ConnBeginTx") THEN "BeginTx" ELSE "Begin"
        IN
        IF ~Has(conns[c].caps, "ConnBeginTx") /\ TxOptionsError(opts) # "nil"
        THEN /\ NoTrack
             /\ last' = OutcomeArg("BeginTx", c, opts, "nil", TxOptionsError(opts), <<>>)
        ELSE \/ \E e \in Failures :
                /\ NoTrack
                /\ last' = OutcomeArg("BeginTx", c, opts, "nil", e, <<W(call, e)>>)
             \/ \E src \in pool \cup {0}, L \in env.stackLens :
                /\ Track(newMonitoredTx(conns[c].timeout, stackPoolGet(src), L), src)
                /\ last' = OutcomeArg("BeginTx", c, opts, "monitoredTx", "nil", <<W(call, "nil")>>)
    /\ Frame

(***************************************************************************)
(* Close, Commit, Rollback: markClosed on the proxy's monitor, then the    *)
(* wrapped call.  The two steps of one call on proxy m.                    *)
(***************************************************************************)
\* Mutant: Close hands the stack buffer back to the pool itself.
MarkStep_releasesBuffer(m, op) ==
    /\ res[m].busy = "none"
    /\ res' = [res EXCEPT ![m].monitor = markClosed(@),
                          ![m].busy = op,
                          ![m].first = IF @ = "none" THEN op ELSE @,
                          ![m].early = @ \/ ~res[m].monitor.fired]
    /\ pool' = pool \cup {m}
    /\ UNCHANGED <<env, root, orig, connector, conns, bufs, log, last>>

\* Mutant: the wrapped call is started first; markClosed would follow it.
MarkStep_delegatesFirst(m, op) ==
    /\ res[m].busy = "none"
    /\ res' = [res EXCEPT ![m].busy = op,
                          ![m].first = IF @ = "none" THEN op ELSE @]
    /\ UNCHANGED <<env, root, orig, connector, conns, bufs, pool, log, last>>

\* Mutant: Close on a cursor also marks the statement it came from, and
\* Close on a statement the cursors it produced.
MarkStep_marksFamily(m, op) ==
    /\ res[m].busy = "none"
    /\ res' = [x \in Monitors |->
                IF x = m
                THEN [res[x] EXCEPT !.monitor.closed = TRUE, !.busy = op,
                                    !.first = IF @ = "none" THEN op ELSE @,
                                    !.early = @ \/ ~res[x].monitor.fired]
                ELSE IF x = res[m].parent \/ res[x].parent = m
                THEN [res[x] EXCEPT !.monitor.closed = TRUE]
                ELSE res[x]]
    /\ UNCHANGED <<env, root, orig, connector, conns, bufs, pool, log, last>>

MarkStep(m, op) ==
    /\ res[m].busy = "none"
    /\ res' = [res EXCEPT ![m].monitor = markClosed(@),
                          ![m].busy = op,
                          ![m].first = IF @ = "none" THEN op ELSE @,
                          ![m].early = @ \/ ~res[m].monitor.fired]
    /\ UNCHANGED <<env, root, orig, connector, conns, bufs, pool, log, last>>

CallStep(m, op) ==
    /\ UNCHANGED <<env, root, orig, connector, conns, bufs, pool, log>>
    /\ res[m].busy = op
    /\ res' = [res EXCEPT ![m].busy = "none"]
    /\ \E e \in env.errs : last' = Outcome(op, m, "nil", e, <<W(op, e)>>)

IsStmt(m) == res[m].kind = "monitoredStmt"
IsRows(m) == res[m].kind = "monitoredRows"
IsTx(m) == res[m].kind = "monitoredTx"

(***************************************************************************)
(* stmt.go: monitoredStmt.  s is the statement proxy called.               *)
(***************************************************************************)
StmtCloseMark(s) == IsStmt(s) /\ MarkStep(s, "Stmt.Close")
StmtCloseCall(s) == IsStmt(s) /\ CallStep(s, "Stmt.Close")

\* Exec is the embedded driver.Stmt's method.
StmtExec(s) ==
    /\ IsStmt(s)
    /\ Stateless
    /\ \E e \in env.errs :
        last' = Outcome("Stmt.Exec", s, IF e = "nil" THEN "result" ELSE "nil", e,
                        <<W("Exec", e)>>)

\* Mutant: the cursor of a statement gets the default timeout.
RowsOf_defaultTimeout(s, rc, src, L) ==
    [newMonitoredRows(rc, DefaultTimeout, stackPoolGet(src), L)
        EXCEPT !.parent = s]

\* The cursor a statement produced: parent records the statement.
RowsOf(s, rc, src, L) ==
    [newMonitoredRows(rc, res[s].monitor.timeout, stackPoolGet(src), L)
        EXCEPT !.parent = s]

StmtQuery(s) ==
    /\ IsStmt(s)
    /\ \/ \E e \in Failures :
            /\ NoTrack
            /\ last' = Outcome("Stmt.Query", s, "nil", e, <<W("Query", e)>>)
       \/ \E rc \in env.rowsCaps, src \in pool \cup {0}, L \in env.stackLens :
            /\ Track(RowsOf(s, rc, src, L), src)
            /\ last' = Outcome("Stmt.Query", s, "monitoredRows", "nil", <<W("Query", "nil")>>)
    /\ Frame

\* namedValueToValue: the error it returns.
namedValueToValue(named) == IF named THEN "errNamedParams" ELSE "nil"

StmtExecContext(s) ==
    /\ IsStmt(s)
    /\ Stateless
    /\ \E ctx \in env.ctxs, named \in BOOLEAN, e \in env.errs :
        LET arg == StmtArg(ctx, named) IN
        last' =
          IF Has(res[s].caps, "StmtExecContext")
          THEN OutcomeArg("Stmt.ExecContext", s, arg,
                          IF e = "nil" THEN "result" ELSE "nil", e, <<W("ExecContext", e)>>)
          ELSE IF namedValueToValue(named) # "nil"
          THEN OutcomeArg("Stmt.ExecContext", s, arg, "nil", namedValueToValue(named),
                          <<>>)
          ELSE IF PollDone(ctx, "entry")
          THEN OutcomeArg("Stmt.ExecContext", s, arg, "nil", "ctxErr", <<>>)
          ELSE OutcomeArg("Stmt.ExecContext", s, arg,
                          IF e = "nil" THEN "result" ELSE "nil", e, <<W("Exec", e)>>)

StmtQueryContext(s) ==
    /\ IsStmt(s)
    /\ \E ctx \in env.ctxs, named \in BOOLEAN :
        LET arg == StmtArg(ctx, named)
            native == Has(res[s].caps, "StmtQueryContext")
            call == IF native THEN "QueryContext" ELSE "Query"
        IN
        IF ~native /\ namedValueToValue(named) # "nil"
        THEN /\ NoTrack
             /\ last' = OutcomeArg("Stmt.QueryContext", s, arg, "nil",
                                   namedValueToValue(named), <<>>)
        ELSE IF ~native /\ PollDone(ctx, "entry")
        THEN /\ NoTrack
             /\ last' = OutcomeArg("Stmt.QueryContext", s, arg, "nil", "ctxErr", <<>>)
        ELSE \/ \E e \in Failures :
                /\ NoTrack
                /\ last' = OutcomeArg("Stmt.QueryContext", s, arg, "nil", e, <<W(call, e)>>)
             \/ \E rc \in env.rowsCaps, src \in pool \cup {0}, L \in env.stackLens :
                /\ Track(RowsOf(s, rc, src, L), src)
                /\ last' = OutcomeArg("Stmt.QueryContext", s, arg, "monitoredRows", "nil",
                                      <<W(call, "nil")>>)
    /\ Frame

\* Mutant: the validator of the connection is consulted first.
StmtCheckNamedValueOutcome_connFirst(s, es, ec) ==
    IF Has(conns[res[s].conn].caps, "NamedValueChecker")
    THEN ConnCheckNamedValue("Stmt.CheckNamedValue", s, res[s].conn, ec)
    ELSE IF Has(res[s].caps, "NamedValueChecker")
    THEN Outcome("Stmt.CheckNamedValue", s, "nil", es, <<W("Stmt.CheckNamedValue", es)>>)
    ELSE Outcome("Stmt.CheckNamedValue", s, "nil", "ErrSkip", <<>>)

\* monitoredStmt.CheckNamedValue: es and ec are what the validator of the
\* wrapped statement and of the wrapped connection return.
StmtCheckNamedValueOutcome(s, es, ec) ==
    IF ~Has(res[s].caps, "NamedValueChecker")
    THEN ConnCheckNamedValue("Stmt.CheckNamedValue", s, res[s].conn, ec)
    ELSE Outcome("Stmt.CheckNamedValue", s, "nil", es, <<W("Stmt.CheckNamedValue", es)>>)

StmtCheckNamedValue(s) ==
    /\ IsStmt(s)
    /\ Stateless
    /\ \E es \in env.errs, ec \in env.errs :
        last' = StmtCheckNamedValueOutcome(s, es, ec)

(***************************************************************************)
(* rows.go: monitoredRows.  r is the cursor proxy called.                  *)
(* A wrapped introspection method returns "zero" (the zero values, ok      *)
(* false) or "value".                                                      *)
(***************************************************************************)
RowsCloseMark(r) == IsRows(r) /\ MarkStep(r, "Rows.Close")
RowsCloseCall(r) == IsRows(r) /\ CallStep(r, "Rows.Close")

Introspect(op, iface, r) ==
    /\ IsRows(r)
    /\ Stateless
    /\ \E v \in {"zero", "value"} :
        last' = IF Has(res[r].caps, iface)
                THEN Outcome(op, r, v, "nil", <<W(op, v)>>)
                ELSE Outcome(op, r, "zero", "nil", <<>>)

RowsColumnTypePrecisionScale(r) ==
    Introspect("ColumnTypePrecisionScale", "RowsColumnTypePrecisionScale", r)
RowsColumnTypeNullable(r) ==
    Introspect("ColumnTypeNullable", "RowsColumnTypeNullable", r)
RowsColumnTypeLength(r) ==
    Introspect("ColumnTypeLength", "RowsColumnTypeLength", r)
RowsColumnTypeDatabaseTypeName(r) ==
    Introspect("ColumnTypeDatabaseTypeName", "RowsColumnTypeDatabaseTypeName", r)

RowsHasNextResultSet(r) ==
    /\ IsRows(r)
    /\ Stateless
    /\ \E v \in {"false", "true"} :
        last' = IF Has(res[r].caps, "RowsNextResultSet")
                THEN Outcome("HasNextResultSet", r, v, "nil",
                             <<W("HasNextResultSet", v)>>)
                ELSE Outcome("HasNextResultSet", r, "false", "nil", <<>>)

RowsNextResultSet(r) ==
    /\ IsRows(r)
    /\ Stateless
    /\ \E e \in env.errs \cup {"EOF"} :
        last' = IF Has(res[r].caps, "RowsNextResultSet")
                THEN Outcome("NextResultSet", r, "nil", e, <<W("NextResultSet", e)>>)
                ELSE Outcome("NextResultSet", r, "nil", "EOF", <<>>)

\* Mutant: a cursor that reports the end of its rows is marked closed.
RowsNext_closesAtEOF(r) ==
    /\ IsRows(r)
    /\ UNCHANGED <<env, root, orig, connector, conns, bufs, pool, log>>
    /\ \E e \in env.errs \cup {"EOF"} :
        /\ res' = IF e = "EOF" THEN [res EXCEPT ![r].monitor = markClosed(@)] ELSE res
        /\ last' = Outcome("Next", r, "nil", e, <<W("Next", e)>>)

RowsNext(r) ==
    /\ IsRows(r)
    /\ Stateless
    /\ \E e \in env.errs \cup {"EOF"} :
        last' = Outcome("Next", r, "nil", e, <<W("Next", e)>>)

(***************************************************************************)
(* tx.go: monitoredTx.  t is the transaction proxy called.                 *)
(***************************************************************************)
TxCommitMark(t) == IsTx(t) /\ MarkStep(t, "Tx.Commit")
TxCommitCall(t) == IsTx(t) /\ CallStep(t, "Tx.Commit")
TxRollbackMark(t) == IsTx(t) /\ MarkStep(t, "Tx.Rollback")
TxRollbackCall(t) == IsTx(t) /\ CallStep(t, "Tx.Rollback")

\* Opening: the driver and connector proxies.
OpenSteps ==
    \/ DriverOpenConnector
    \/ OpenDB
    \/ DriverOpen
    \/ DsnConnect
    \/ ConnectorConnect

\* Calls that return no monitored proxy and end no monitored proxy's life.
PlainCalls ==
    \/ \E c \in Conns : ConnPing(c)
    \/ \E c \in Conns : ConnExec(c)
    \/ \E c \in Conns : ConnExecContext(c)
    \/ \E c \in Conns : ConnResetSession(c)
    \/ \E c \in Conns : ConnCheckNamedValueCall(c)
    \/ \E m \in Monitors : StmtExec(m)
    \/ \E m \in Monitors : StmtExecContext(m)
    \/ \E m \in Monitors : StmtCheckNamedValue(m)
    \/ \E m \in Monitors : RowsColumnTypePrecisionScale(m)
    \/ \E m \in Monitors : RowsColumnTypeNullable(m)
    \/ \E m \in Monitors : RowsColumnTypeLength(m)
    \/ \E m \in Monitors : RowsColumnTypeDatabaseTypeName(m)
    \/ \E m \in Monitors : RowsHasNextResultSet(m)
    \/ \E m \in Monitors : RowsNextResultSet(m)
    \/ \E m \in Monitors : RowsNext(m)

\* Calls that may return a statement, a cursor or a transaction.
ProducingCalls ==
    \/ \E c \in Conns : ConnQuery(c)
    \/ \E c \in Conns : ConnQueryContext(c)
    \/ \E c \in Conns : ConnPrepare(c)
    \/ \E c \in Conns : ConnPrepareContext(c)
    \/ \E c \in Conns : ConnBegin(c)
    \/ \E c \in Conns : ConnBeginTx(c)
    \/ \E m \in Monitors : StmtQuery(m)
    \/ \E m \in Monitors : StmtQueryContext(m)

\* Close, Commit and Rollback.
ClosingCalls ==
    \/ \E m \in Monitors : StmtCloseMark(m)
    \/ \E m \in Monitors : StmtCloseCall(m)
    \/ \E m \in Monitors : RowsCloseMark(m)
    \/ \E m \in Monitors : RowsCloseCall(m)
    \/ \E m \in Monitors : TxCommitMark(m)
    \/ \E m \in Monitors : TxCommitCall(m)
    \/ \E m \in Monitors : TxRollbackMark(m)
    \/ \E m \in Monitors : TxRollbackCall(m)

\* The runtime: timers and the garbage collector.
RuntimeSteps ==
    \/ \E m \in Monitors : TimerFire(m)
    \/ PoolDrop

(***************************************************************************)
(* The system: the application and database/sql call the proxies, the      *)
(* runtime runs the timer callbacks and empties the pool.                  *)
(***************************************************************************)
Next == OpenSteps \/ PlainCalls \/ ProducingCalls \/ ClosingCalls \/ RuntimeSteps

CloseOps == {"Stmt.Close", "Rows.Close", "Tx.Commit", "Tx.Rollback"}

\* Spec: every operation, on a driver whose connections, statements and
\* cursors implement every optional interface; Close, Commit and Rollback
\* are the calls observed.
LifeEnv ==
    [connCaps |-> {AllConnCaps}, stmtCaps |-> {AllStmtCaps}, rowsCaps |-> {AllRowsCaps},
     stackLens |-> {300}, errs |-> WrappedErrs, ctxs |-> Ctxs, watch |-> CloseOps,
     opts |-> <<>>]

Init == InitWith(LifeEnv, {"plain", "ctx"}, {<<>>})

Spec == Init /\ [][Next]_vars

AllOps ==
    {"OpenConnector", "Open", "Driver.Open", "dsnConnector.Connect", "Connector.Connect",
     "Ping", "Exec", "ExecContext", "ResetSession", "Conn.CheckNamedValue",
     "Query", "QueryContext", "Prepare", "PrepareContext", "Begin", "BeginTx",
     "Stmt.Exec", "Stmt.Query", "Stmt.ExecContext", "Stmt.QueryContext",
     "Stmt.CheckNamedValue", "ColumnTypePrecisionScale", "ColumnTypeNullable",
     "ColumnTypeLength", "ColumnTypeDatabaseTypeName", "HasNextResultSet",
     "NextResultSet", "Next"} \cup CloseOps

\* CallSpec: the same system on drivers whose objects implement none, some
\* or all of the optional interfaces; every call is observed.
CallEnv ==
    [connCaps |-> {{}, AllConnCaps},
     stmtCaps |-> {{}, {"NamedValueChecker"}, AllStmtCaps},
     rowsCaps |-> {{}, AllRowsCaps},
     stackLens |-> {300}, errs |-> WrappedErrs, ctxs |-> Ctxs, watch |-> AllOps,
     opts |-> <<>>]

CallInit == InitWith(CallEnv, {"plain", "ctx"}, {<<>>})

CallNext == OpenSteps \/ PlainCalls \/ ProducingCalls

CallSpec == CallInit /\ [][CallNext]_vars

\* LiveSpec: Spec, with the guarantee of time.AfterFunc that the callback of
\* every timer started runs.
LiveSpec == Spec /\ \A m \in 1..MaxRes : WF_vars(TimerFire(m))

\* PoolSpec: the same system with callers of different stack depth, one of
\* them deeper than a buffer is long; no call is observed.
PoolEnv ==
    [connCaps |-> {AllConnCaps}, stmtCaps |-> {AllStmtCaps}, rowsCaps |-> {AllRowsCaps},
     stackLens |-> StackLens, errs |-> WrappedErrs, ctxs |-> Ctxs, watch |-> {},
     opts |-> <<>>]

PoolInit == InitWith(PoolEnv, {"plain", "ctx"}, {<<>>})

PoolSpec == PoolInit /\ [][Next]_vars

(***************************************************************************)
(* Properties.                                                             *)
(***************************************************************************)
\* The label newMonitor is given for each type of proxy.
KindLabel(kind) ==
    CASE kind = "monitoredStmt" -> "Stmt"
      [] kind = "monitoredRows" -> "Rows"
      [] kind = "monitoredTx" -> "Tx"

WarningsOf(m) == {i \in DOMAIN log : log[i].mon = m}
Warnings(m) == Cardinality(WarningsOf(m))

\* The one warning of m names m's type of resource, its timeout, and holds
\* the stack text m captured.
OwnWarning(m) ==
    /\ Warnings(m) = 1
    /\ \A i \in WarningsOf(m) :
        /\ log[i].resource = KindLabel(res[m].kind)
        /\ log[i].timeout = res[m].monitor.timeout
        /\ log[i].stack = [who |-> m, n |-> res[m].monitor.stack.n]

\* C1: every monitor's deferred check runs eventually; a monitor whose check
\* ran before any Close, Commit or Rollback on its proxy has exactly one
\* warning in the log, with its own label and its own stack, and keeps
\* exactly that one whatever is called later; no monitor ever has two.
C1_LeakWarnedOnce ==
    \A m \in 1..MaxRes :
        /\ [](m \in Monitors => <>(m \in Monitors /\ res[m].monitor.fired))
        /\ [](m \in Monitors /\ res[m].monitor.fired /\ ~res[m].early => OwnWarning(m))
        /\ [](m \in Monitors => Warnings(m) <= 1)

\* A leaked resource was warned about once and closed afterwards.
C1_Witness ==
    \E m \in Monitors :
        /\ res[m].monitor.fired /\ ~res[m].early /\ res[m].monitor.closed
        /\ OwnWarning(m)

\* C2: a monitor marked closed before its deferred check ran has no warning
\* in the log, in any later state.
C2_ClosedInTimeNeverWarned ==
    \A m \in Monitors : res[m].early => Warnings(m) = 0

\* A resource closed in time, its check has run, and a warning of another
\* resource shows that the log works.
C2_Witness ==
    \E m \in Monitors :
        /\ res[m].early /\ res[m].monitor.fired /\ Warnings(m) = 0
        /\ log # <<>>

\* The proxies Close on which is a call on a relative of m: the statement a
\* cursor came from, the cursors a statement produced.
Family(m) == {x \in Monitors : x # m /\ (x = res[m].parent \/ res[x].parent = m)}

\* C3: a step of a call on one proxy leaves the closed flag of its parent
\* and of its children as it was, and a closed flag changes only in a step
\* of Close, Commit or Rollback on the proxy that owns it.  With a statement
\* s and a cursor r produced from it, both past their deferred check: if r
\* was closed in time and s was not, the log has exactly one warning of s,
\* labelled "Stmt", and none of r; if s was closed in time and r was not,
\* it has exactly one warning of r, labelled "Rows", and none of s.
C3_ParentChildIndependent ==
    /\ [][\A m \in Monitors :
            /\ res'[m].busy # res[m].busy =>
                  \A x \in Family(m) : res'[x].monitor.closed = res[x].monitor.closed
            /\ res'[m].monitor.closed # res[m].monitor.closed =>
                  res[m].busy = "none" /\ res'[m].busy \in CloseOps]_vars
    /\ [](\A r \in Monitors :
            LET s == res[r].parent IN
            (s # 0 /\ res[r].monitor.fired /\ res[s].monitor.fired) =>
                /\ (res[r].early /\ ~res[s].early) =>
                      /\ OwnWarning(s) /\ Warnings(r) = 0
                      /\ \A i \in DOMAIN log :
                            /\ log[i].mon = s => log[i].resource = "Stmt"
                            /\ log[i].mon \in {r, s} => log[i].resource # "Rows"
                /\ (res[s].early /\ ~res[r].early) =>
                      /\ OwnWarning(r) /\ Warnings(s) = 0
                      /\ \A i \in DOMAIN log :
                            /\ log[i].mon = r => log[i].resource = "Rows"
                            /\ log[i].mon \in {r, s} => log[i].resource # "Stmt")

\* The cursor of a statement was closed, the statement never was, both
\* checks have run: one warning, of the statement.
C3_Witness ==
    \E r \in Monitors :
        LET s == res[r].parent IN
        /\ s # 0 /\ res[r].monitor.fired /\ res[s].monitor.fired
        /\ res[r].early /\ res[r].busy = "none" /\ ~res[s].monitor.closed
        /\ Len(log) = 1 /\ log[1].mon = s /\ log[1].resource = "Stmt"

(***************************************************************************)
(* Properties of single calls, on the outcome last records.                *)
(***************************************************************************)
ConnOps == {"Ping", "Exec", "ExecContext", "ResetSession", "Conn.CheckNamedValue",
            "Query", "QueryContext", "Prepare", "PrepareContext", "Begin", "BeginTx"}
StmtOps == {"Stmt.Exec", "Stmt.Query", "Stmt.ExecContext", "Stmt.QueryContext",
            "Stmt.CheckNamedValue", "Stmt.Close"}
RowsOps == {"ColumnTypePrecisionScale", "ColumnTypeNullable", "ColumnTypeLength",
            "ColumnTypeDatabaseTypeName", "HasNextResultSet", "NextResultSet", "Next",
            "Rows.Close"}

\* The optional interfaces of the wrapped object the last call was made on.
LastCaps ==
    IF last.op \in ConnOps THEN conns[last.on].caps
    ELSE IF last.op \in StmtOps \cup RowsOps THEN res[last.on].caps
    ELSE {}

\* The last call invoked exactly method f of the wrapped object and returned
\* its error unchanged.
Delegated(f) ==
    /\ Len(last.calls) = 1
    /\ last.calls[1].f = f
    /\ last.err = last.calls[1].ret

NothingInvoked == last.calls = <<>> /\ last.made = 0

\* C4: on wrapped objects that implement only the mandatory interfaces, no
\* call on a proxy panics; Exec, ExecContext, Query, QueryContext and
\* CheckNamedValue return ErrSkip; Ping and ResetSession return nil; the
\* column introspection methods return zero values, HasNextResultSet false
\* and NextResultSet io.EOF, all without invoking the wrapped object;
\* PrepareContext, BeginTx with default options, and Stmt.ExecContext and
\* Stmt.QueryContext (positional arguments, context not cancelled) invoke
\* the mandatory method; Open, Prepare and Query that succeed return a
\* connection, statement and cursor proxy.
C4_MandatoryOnlyDegrades ==
    /\ last.err # "panic"
    /\ (last.op \in ConnOps /\ LastCaps = {}) =>
        /\ last.op \in {"Exec", "ExecContext", "Query", "QueryContext",
                        "Conn.CheckNamedValue"} =>
              last.err = "ErrSkip" /\ NothingInvoked
        /\ last.op \in {"Ping", "ResetSession"} => last.err = "nil" /\ NothingInvoked
        /\ last.op = "PrepareContext" => Len(last.calls) >= 1 /\ last.calls[1].f = "Prepare"
        /\ (last.op = "BeginTx" /\ last.arg.Isolation = "Default" /\ ~last.arg.ReadOnly) =>
              Delegated("Begin")
        /\ (last.op = "Prepare" /\ last.err = "nil") =>
              last.val = "monitoredStmt" /\ last.made = 1
    /\ (last.op \in StmtOps /\ LastCaps = {}) =>
        /\ (last.op = "Stmt.CheckNamedValue" /\ conns[res[last.on].conn].caps = {}) =>
              last.err = "ErrSkip" /\ NothingInvoked
        /\ (last.op = "Stmt.ExecContext" /\ ~last.arg.named /\ last.arg.ctx # "before") =>
              Delegated("Exec")
        /\ (last.op = "Stmt.QueryContext" /\ ~last.arg.named /\ last.arg.ctx # "before") =>
              Delegated("Query")
        /\ (last.op \in {"Stmt.Query", "Stmt.QueryContext"} /\ last.err = "nil") =>
              last.val = "monitoredRows" /\ last.made = 1
    /\ (last.op \in RowsOps /\ LastCaps = {}) =>
        /\ last.op \in {"ColumnTypePrecisionScale", "ColumnTypeNullable", "ColumnTypeLength",
                        "ColumnTypeDatabaseTypeName"} =>
              last.val = "zero" /\ last.err = "nil" /\ NothingInvoked
        /\ last.op = "HasNextResultSet" =>
              last.val = "false" /\ last.err = "nil" /\ NothingInvoked
        /\ last.op = "NextResultSet" => last.err = "EOF" /\ NothingInvoked
    /\ (last.op \in {"Open", "Driver.Open", "dsnConnector.Connect", "Connector.Connect"}
           /\ orig = "plain" /\ last.err = "nil") =>
              last.val \in {"dsnConnector", "monitoredConn"}

CtxVariant(op) ==
    CASE op = "PrepareContext" -> "ConnPrepareContext"
      [] op = "Stmt.ExecContext" -> "StmtExecContext"
      [] op = "Stmt.QueryContext" -> "StmtQueryContext"

\* The last call was a context-aware method on a proxy whose wrapped object
\* lacks the context-aware variant.
LastFellBack ==
    /\ last.op \in {"PrepareContext", "Stmt.ExecContext", "Stmt.QueryContext"}
    /\ ~Has(LastCaps, CtxVariant(last.op))

\* C5, as claimed: when the wrapped object lacks the context-aware variant,
\* a context cancelled before the call makes the proxy return the
\* cancellation error without invoking the wrapped object, and a context
\* cancelled later does not make it return the cancellation error.
C5_PollBeforeFallback ==
    LastFellBack =>
        /\ last.arg.ctx = "before" => last.err = "ctxErr" /\ last.calls = <<>>
        /\ last.arg.ctx = "during" => last.err # "ctxErr"

\* C5, amended: Stmt.ExecContext and Stmt.QueryContext on a statement
\* without the variant return the named-parameters error if an argument is
\* named; otherwise, if the context was cancelled before the call, the
\* cancellation error, in both cases without invoking Exec or Query;
\* otherwise they invoke Exec or Query once and return its outcome, also if
\* the context is cancelled meanwhile.  PrepareContext on a connection
\* without the variant always invokes Prepare first and returns its error;
\* if Prepare succeeded and the context was cancelled before or during it,
\* the wrapped statement is closed, the cancellation error returned and no
\* monitor created; otherwise a monitored statement is returned.
C5_PollAsCoded ==
    LastFellBack =>
        IF last.op = "PrepareContext"
        THEN /\ Len(last.calls) >= 1
             /\ last.calls[1].f = "Prepare"
             /\ IF last.calls[1].ret # "nil"
                THEN Delegated("Prepare") /\ last.made = 0
                ELSE IF last.arg.ctx \in {"before", "during"}
                THEN /\ last.err = "ctxErr" /\ last.val = "nil" /\ last.made = 0
                     /\ Len(last.calls) = 2 /\ last.calls[2].f = "Stmt.Close"
                ELSE /\ Delegated("Prepare")
                     /\ last.val = "monitoredStmt" /\ last.made = 1
        ELSE IF last.arg.named
        THEN last.err = "errNamedParams" /\ NothingInvoked
        ELSE IF last.arg.ctx = "before"
        THEN last.err = "ctxErr" /\ NothingInvoked
        ELSE Delegated(IF last.op = "Stmt.ExecContext" THEN "Exec" ELSE "Query")

\* PrepareContext without the variant, context cancelled before the call:
\* Prepare was invoked, the statement closed, the cancellation error returned.
C5_Witness ==
    /\ LastFellBack
    /\ last.op = "PrepareContext" /\ last.arg.ctx = "before"
    /\ last.err = "ctxErr"
    /\ last.calls = <<W("Prepare", "nil"), W("Stmt.Close", "ignored")>>

\* C6: BeginTx on a connection proxy whose wrapped connection is no
\* ConnBeginTx: with a non-default isolation level or ReadOnly set it
\* returns an error, invokes nothing and creates no monitor; with default
\* options it invokes Begin once, returns its error unchanged, and on
\* success returns a monitored Tx, the one monitor it created.
C6_BeginTxUnsupportedOptions ==
    (last.op = "BeginTx" /\ ~Has(LastCaps, "ConnBeginTx")) =>
        IF last.arg.Isolation # "Default" \/ last.arg.ReadOnly
        THEN /\ last.err \in {"errIsolation", "errReadOnly"}
             /\ last.val = "nil"
             /\ NothingInvoked
        ELSE /\ Delegated("Begin")
             /\ last.err = "nil" => last.val = "monitoredTx" /\ last.made = 1
             /\ last.err # "nil" => last.val = "nil" /\ last.made = 0

\* A read-only transaction with the default isolation level was refused.
C6_Witness ==
    /\ last.op = "BeginTx" /\ ~Has(LastCaps, "ConnBeginTx")
    /\ last.arg.Isolation = "Default" /\ last.arg.ReadOnly
    /\ last.err = "errReadOnly" /\ NothingInvoked

\* C7: Stmt.CheckNamedValue: if the wrapped statement is a
\* NamedValueChecker, only its validator is invoked and its result returned;
\* otherwise, if the wrapped connection of the owning connection proxy is
\* one, only that validator is invoked and its result returned; otherwise
\* ErrSkip is returned and nothing invoked.
C7_CheckNamedValueOrder ==
    last.op = "Stmt.CheckNamedValue" =>
        IF Has(LastCaps, "NamedValueChecker")
        THEN Delegated("Stmt.CheckNamedValue")
        ELSE IF Has(conns[res[last.on].conn].caps, "NamedValueChecker")
        THEN Delegated("Conn.CheckNamedValue")
        ELSE last.err = "ErrSkip" /\ NothingInvoked

\* Statement and connection both validate: the statement's validator alone
\* was asked, and its error came back.
C7_Witness ==
    /\ last.op = "Stmt.CheckNamedValue"
    /\ Has(LastCaps, "NamedValueChecker")
    /\ Has(conns[res[last.on].conn].caps, "NamedValueChecker")
    /\ last.calls = <<W("Stmt.CheckNamedValue", "errDriver")>>
    /\ last.err = "errDriver"

\* C8: on a transaction proxy, the step of Commit or Rollback that runs
\* markClosed leaves the monitor closed, whether it is the first such call
\* or a later one; the step that follows invokes the same method of the
\* wrapped transaction, once, and returns its error unchanged; a monitor
\* once closed stays closed.
C8_CommitRollbackDelegate ==
    [][\A t \in Monitors : IsTx(t) =>
        /\ (res[t].busy = "none" /\ res'[t].busy # "none") =>
              /\ res'[t].busy \in {"Tx.Commit", "Tx.Rollback"}
              /\ res'[t].monitor.closed
              /\ res'[t].first = IF res[t].first = "none" THEN res'[t].busy
                                 ELSE res[t].first
        /\ (res[t].busy # "none" /\ res'[t].busy = "none") =>
              /\ last'.op = res[t].busy /\ last'.on = t
              /\ Len(last'.calls) = 1
              /\ last'.calls[1].f = res[t].busy
              /\ last'.err = last'.calls[1].ret
              /\ res'[t].monitor.closed
        /\ res[t].monitor.closed => res'[t].monitor.closed]_vars

\* Commit came first; a later Rollback was passed to the wrapped
\* transaction, its error returned, and the monitor is closed.
C8_Witness ==
    \E t \in Monitors :
        /\ IsTx(t) /\ res[t].first = "Tx.Commit" /\ res[t].busy = "none"
        /\ last.op = "Tx.Rollback" /\ last.on = t
        /\ last.calls = <<W("Tx.Rollback", "errDriver")>>
        /\ last.err = "errDriver"
        /\ res[t].monitor.closed

\* C9: the pool never holds more buffers than stackPool.New made, and never
\* the same backing array twice; no backing array belongs to two monitors
\* whose check has not run, nor to such a monitor and the pool; and the
\* array of a monitor whose check has not run still holds the stack that
\* monitor captured.
C9_PoolOwnership ==
    /\ Cardinality(pool) <= Len(bufs)
    /\ pool \subseteq Monitors
    /\ \A p, q \in pool : p # q => res[p].monitor.stack.arr # res[q].monitor.stack.arr
    /\ \A m \in Monitors : ~res[m].monitor.fired =>
        /\ res[m].monitor.stack.arr \in DOMAIN bufs
        /\ \A x \in Monitors \ {m} :
              ~res[x].monitor.fired => res[x].monitor.stack.arr # res[m].monitor.stack.arr
        /\ \A p \in pool : res[p].monitor.stack.arr # res[m].monitor.stack.arr
        /\ StackText(res[m].monitor.stack) = [who |-> m, n |-> res[m].monitor.stack.n]

\* A buffer went through the pool: a monitor whose check has not run holds
\* the array an earlier monitor captured into, with its own stack in it.
C9_Witness ==
    \E m, x \in Monitors :
        /\ x # m /\ res[x].monitor.fired /\ ~res[m].monitor.fired
        /\ res[x].monitor.stack.arr = res[m].monitor.stack.arr
        /\ Len(bufs) = 1 /\ pool = {}
        /\ bufs[res[m].monitor.stack.arr].who = m

\* C10: every warning in the log is that of a statement, cursor or
\* transaction proxy and carries the label "Stmt", "Rows" or "Tx"; a step
\* that opens a connection or builds a connector creates no monitor, takes
\* no buffer and logs nothing; as long as no statement, cursor or
\* transaction was created the log is empty.
C10_NoConnectionWarning ==
    /\ [](\A i \in DOMAIN log :
            /\ log[i].mon \in Monitors
            /\ log[i].resource \in {"Stmt", "Rows", "Tx"}
            /\ res[log[i].mon].kind \in {"monitoredStmt", "monitoredRows", "monitoredTx"})
    /\ [](res = <<>> => log = <<>>)
    /\ [][(conns' # conns \/ connector' # connector \/ root' # root) =>
            UNCHANGED <<res, bufs, pool, log>>]_vars

\* A connection is open, nothing was created on it, and nothing is logged.
C10_Witness == Len(conns) = MaxConn /\ res = <<>> /\ log = <<>>

(***************************************************************************)
(* The example of the README and of sqleak_test.go: Open with              *)
(* WithTimeout(100ms), one db.Query, a sleep longer than the timeout,      *)
(* rows.Close.  db.Query is database/sql's queryDC, whose calls on the     *)
(* proxies the stack traces of the README show: QueryContext on the        *)
(* connection if it is a QueryerContext (monitoredConn always is); on      *)
(* ErrSkip, PrepareContext and then QueryContext on the statement.         *)
(* rows.Close closes the cursor and then the statement queryDC prepared.   *)
(***************************************************************************)
ExampleOptions == {<<[name |-> "WithTimeout", timeout |-> t, wrapper |-> "none"]>> :
                      t \in OptTimeouts}

ExampleEnv ==
    [connCaps |-> {{}, AllConnCaps}, stmtCaps |-> {{}, AllStmtCaps},
     rowsCaps |-> {{}, AllRowsCaps}, stackLens |-> {300}, errs |-> WrappedErrs,
     ctxs |-> Ctxs, watch |-> AllOps,
     opts |-> <<>>]

ExampleInit == InitWith(ExampleEnv, {"plain", "ctx"}, ExampleOptions)

\* The connection pool of database/sql connects once the connector exists.
Connected ==
    /\ last.op \in {"dsnConnector.Connect", "Connector.Connect"}
    /\ last.err = "nil"

\* queryDC, first attempt: the connection's QueryContext.
QueryDCDirect(c) == Connected /\ ConnQueryContext(c)

\* queryDC after ErrSkip: prepare the statement.
QueryDCPrepare(c) ==
    /\ last.op = "QueryContext" /\ last.err = "ErrSkip"
    /\ ConnPrepareContext(c)

\* queryDC, rowsiFromStatement: query the statement just prepared.
QueryDCStmtQuery(s) ==
    /\ last.op = "PrepareContext" /\ last.err = "nil"
    /\ s = Len(res)
    /\ StmtQueryContext(s)

\* rows.Close(): the cursor, then the statement it was produced from.
ExampleRowsClose(r) ==
    \/ RowsCloseMark(r)
    \/ RowsCloseCall(r)

ExampleStmtClose(s) ==
    /\ \E r \in Monitors : res[r].parent = s /\ res[r].monitor.closed /\ res[r].busy = "none"
    /\ \/ StmtCloseMark(s)
       \/ StmtCloseCall(s)

ExampleNext ==
    \/ OpenDB
    \/ DsnConnect
    \/ ConnectorConnect
    \/ \E c \in Conns : QueryDCDirect(c)
    \/ \E c \in Conns : QueryDCPrepare(c)
    \/ \E m \in Monitors : QueryDCStmtQuery(m)
    \/ \E m \in Monitors : ExampleRowsClose(m)
    \/ \E m \in Monitors : ExampleStmtClose(m)
    \/ \E m \in Monitors : TimerFire(m)
    \/ PoolDrop

ExampleSpec == ExampleInit /\ [][ExampleNext]_vars

\* C11: in the example of the README, once the timers of all monitors have
\* run while the rows the query returned were never closed, the log holds a
\* warning labelled "Stmt" and a warning labelled "Rows".
C11_ExampleWarnsStmtAndRows ==
    (/\ \E r \in Monitors : IsRows(r) /\ ~res[r].monitor.closed
     /\ \A m \in Monitors : res[m].monitor.fired)
    => /\ \E i \in DOMAIN log : log[i].resource = "Stmt"
       /\ \E i \in DOMAIN log : log[i].resource = "Rows"

\* C12: the deferred check of every monitor runs, closed or not; it runs
\* once (a monitor that has fired stays fired, and only a monitor that has
\* not fired can fire); the step in which it runs is the one step that puts
\* the monitor's buffer into the pool: the buffer is not in the pool before,
\* it is put there in that very step, and never put there again; Close,
\* Commit and Rollback neither fire the check nor touch the pool.
C12_FiresOncePutsOnce ==
    /\ \A m \in 1..MaxRes :
        /\ [](m \in Monitors => <>(m \in Monitors /\ res[m].monitor.fired))
        /\ [](m \in Monitors /\ ~res[m].monitor.fired => m \notin pool)
    /\ [][\A m \in Monitors :
            /\ res[m].monitor.fired => res'[m].monitor.fired
            /\ (m \in pool' /\ m \notin pool) =>
                  ~res[m].monitor.fired /\ res'[m].monitor.fired
            /\ (~res[m].monitor.fired /\ res'[m].monitor.fired) =>
                  /\ m \in pool' /\ m \notin pool
                  /\ res'[m].monitor.closed = res[m].monitor.closed
            /\ res'[m].busy # res[m].busy =>
                  /\ res'[m].monitor.fired = res[m].monitor.fired
                  /\ pool' = pool]_vars

\* A resource closed in time: its check ran all the same, logged nothing and
\* put the buffer into the pool.
C12_Witness ==
    \E m \in Monitors :
        /\ res[m].early /\ res[m].busy = "none"
        /\ res[m].monitor.fired /\ m \in pool
        /\ Warnings(m) = 0

\* C13: the stack a monitor captured has the length of the creating
\* goroutine's stack text, cut at the 8 KiB of a buffer, whether the buffer
\* was made by stackPool.New or came back from the pool.
C13_FixedSizeCapture ==
    \A m \in Monitors : res[m].monitor.stack.n = Min(res[m].depth, BufSize)

\* C14: in Close, Commit and Rollback the monitor is marked closed in a step
\* of its own, before the wrapped method is invoked: while the wrapped call
\* is in progress, and when it returns, the flag is set; so a deferred check
\* that runs while the wrapped call is in progress, or after the wrapped
\* call returned an error, logs nothing.
C14_MarkedBeforeDelegating ==
    /\ [](\A m \in Monitors : res[m].busy # "none" => res[m].monitor.closed)
    /\ [][\A m \in Monitors :
            /\ (res[m].busy = "none" /\ res'[m].busy # "none") =>
                  res'[m].monitor.closed /\ last' = last
            /\ (res[m].busy # "none" /\ res'[m].busy = "none") =>
                  /\ res[m].monitor.closed
                  /\ last'.op = res[m].busy /\ last'.on = m
            /\ (/\ ~res[m].monitor.fired /\ res'[m].monitor.fired
                /\ \/ res[m].busy # "none"
                   \/ last.op \in CloseOps /\ last.on = m /\ last.err # "nil") =>
                  log' = log]_vars

\* The first call of Close, Commit or Rollback anywhere is still inside the
\* wrapped method; the check of its monitor has run meanwhile and logged
\* nothing.
C14_Witness ==
    \E m \in Monitors :
        /\ last.op = "none"
        /\ res[m].busy # "none" /\ res[m].monitor.fired /\ res[m].early
        /\ Warnings(m) = 0

\* C15: a monitor is created with closed = FALSE; a closed flag that is TRUE
\* is TRUE in the next state; the step of Close, Commit or Rollback that
\* runs markClosed changes, in the monitor, the closed flag alone and sets
\* it TRUE; and markClosed applied again to a monitor gives the monitor one
\* application gave.
C15_ClosedMonotonicIdempotent ==
    /\ [](\A m \in Monitors :
            /\ markClosed(markClosed(res[m].monitor)) = markClosed(res[m].monitor)
            /\ markClosed(res[m].monitor) = [res[m].monitor EXCEPT !.closed = TRUE])
    /\ [][/\ Len(res') > Len(res) => ~res'[Len(res')].monitor.closed
          /\ \A m \in Monitors :
                /\ res[m].monitor.closed => res'[m].monitor.closed
                /\ (res[m].busy = "none" /\ res'[m].busy # "none") =>
                      res'[m].monitor = [res[m].monitor EXCEPT !.closed = TRUE]]_vars

\* Close was called on a proxy and returned; a second call has run
\* markClosed again: the monitor is closed and holds the stack it captured.
C15_Witness ==
    \E m \in Monitors :
        /\ last.op \in CloseOps /\ last.on = m
        /\ res[m].busy # "none"
        /\ res[m].monitor.closed
        /\ res[m].monitor.stack.n = Min(res[m].depth, BufSize)
        /\ res[m].monitor.resource = KindLabel(res[m].kind)

\* C16: on a proxy whose deferred check has run, each step of Close, Commit
\* or Rollback leaves the log, the pool and the buffers as they are; the
\* call invokes the wrapped method once and returns its error unchanged; a
\* resource that was warned about, because its check ran before any such
\* call, has exactly one warning in the log before and after.
C16_CloseAfterFire ==
    /\ [](\A m \in Monitors :
            (res[m].monitor.fired /\ ~res[m].early) => Warnings(m) = 1)
    /\ [][\A m \in Monitors :
            (res[m].monitor.fired /\ res'[m].busy # res[m].busy) =>
                /\ log' = log /\ pool' = pool /\ bufs' = bufs
                /\ res'[m].monitor.fired
                /\ res'[m].monitor.stack = res[m].monitor.stack
                /\ res[m].busy # "none" =>
                      /\ last'.op = res[m].busy /\ last'.on = m
                      /\ Len(last'.calls) = 1
                      /\ last'.calls[1].f = res[m].busy
                      /\ last'.err = last'.calls[1].ret]_vars

\* A leaked resource was warned about and closed afterwards; the wrapped
\* Close failed and its error came back; the log holds the one warning.
C16_Witness ==
    \E m \in Monitors :
        /\ res[m].monitor.fired /\ ~res[m].early
        /\ res[m].monitor.closed /\ res[m].busy = "none"
        /\ last.op \in CloseOps /\ last.on = m /\ last.err = "errDriver"
        /\ last.calls = <<W(last.op, "errDriver")>>
        /\ Len(log) = 1 /\ log[1].mon = m

(***************************************************************************)
(* The accesses to monitor.closed.  The field is declared `closed bool`;   *)
(* markClosed writes it on the goroutine that calls Close, Commit or       *)
(* Rollback, the callback of time.AfterFunc reads it on the timer's        *)
(* goroutine, and nothing orders the two.                                  *)
(***************************************************************************)
ClosedField == "plain"

\* A goroutine can call Close, Commit or Rollback on m now: the write.
CloserCanWrite(m) == \E op \in CloseOps : ENABLED MarkStep(m, op)

\* The timer of m can run its callback now: the read.
TimerCanRead(m) == ENABLED TimerFire(m)

\* C17: whenever the write of closed by markClosed and the read of closed by
\* the deferred check can both happen next, in either order, the flag is a
\* synchronized one (an atomic), not a plain field.
C17_ClosedFlagSynchronized ==
    \A m \in Monitors :
        (CloserCanWrite(m) /\ TimerCanRead(m)) => ClosedField = "atomic"

(***************************************************************************)
(* RootSpec: the root proxy built with every list of options, on a driver  *)
(* with or without driver.DriverContext; connections are opened through    *)
(* the driver proxy and through the connectors, resources are produced on  *)
(* them and their timers run.  The calls that build a connector are the    *)
(* ones observed.                                                          *)
(***************************************************************************)
RootEnv ==
    [connCaps |-> {{}, AllConnCaps}, stmtCaps |-> {{}, AllStmtCaps},
     rowsCaps |-> {AllRowsCaps}, stackLens |-> {300}, errs |-> WrappedErrs,
     ctxs |-> Ctxs, watch |-> {"OpenConnector", "Open"},
     opts |-> <<>>]

RootInit == InitWith(RootEnv, {"plain", "ctx"}, OptionLists)

RootNext ==
    \/ OpenSteps
    \/ ProducingCalls
    \/ \E m \in Monitors : TimerFire(m)

RootSpec == RootInit /\ [][RootNext]_vars

\* The timeout the options of the root ask for: that of the last
\* WithTimeout, 30 seconds (in milliseconds) without one.
RECURSIVE TimeoutAskedFor(_)
TimeoutAskedFor(opts) ==
    IF opts = <<>> THEN 30 * 1000
    ELSE LET o == opts[Len(opts)] IN
         IF o.name = "WithTimeout" THEN o.timeout
         ELSE TimeoutAskedFor(SubSeq(opts, 1, Len(opts) - 1))

\* C18: every connection proxy, every monitor of a statement, cursor or
\* transaction, and every warning logged carries the timeout the options of
\* the root asked for, whichever way the connection was opened and whichever
\* call produced the resource.
C18_TimeoutPropagates ==
    /\ root.timeout = TimeoutAskedFor(env.opts)
    /\ \A c \in Conns : conns[c].timeout = TimeoutAskedFor(env.opts)
    /\ \A m \in Monitors : res[m].monitor.timeout = TimeoutAskedFor(env.opts)
    /\ \A i \in DOMAIN log : log[i].timeout = TimeoutAskedFor(env.opts)

\* WithTimeout was given and a connector proxy built; a cursor produced from
\* a statement carries the timeout, and so does the warning logged for it.
C18_Witness ==
    /\ TimeoutAskedFor(env.opts) # 30 * 1000
    /\ connector = "monitored"
    /\ \E r \in Monitors :
        /\ IsRows(r) /\ res[r].parent # 0
        /\ res[r].monitor.timeout = TimeoutAskedFor(env.opts)
        /\ \E i \in DOMAIN log : log[i].mon = r /\ log[i].timeout = res[r].monitor.timeout

\* The methods that return a connector, a connection or a monitored proxy.
ProducingOps ==
    {"OpenConnector", "Open", "Driver.Open", "dsnConnector.Connect", "Connector.Connect",
     "Prepare", "PrepareContext", "Begin", "BeginTx", "Query", "QueryContext",
     "Stmt.Query", "Stmt.QueryContext"}

\* The wrapped method the last call invoked first returned an error.
WrappedFailed ==
    /\ last.op \in ProducingOps
    /\ Len(last.calls) >= 1
    /\ last.calls[1].ret # "nil"

\* C19: when the wrapped method a producing call invokes returns an error,
\* the proxy invokes nothing else, returns that error unchanged and no
\* resource, and creates no monitor; the step leaves the monitored proxies,
\* the buffers, the pool and the log as they were.
C19_ErrorsPassThrough ==
    /\ [](WrappedFailed =>
            /\ Len(last.calls) = 1
            /\ last.err = last.calls[1].ret
            /\ last.val = "nil"
            /\ last.made = 0)
    /\ [][WrappedFailed' => UNCHANGED <<res, bufs, pool, log>>]_vars

\* QueryContext on a statement: the wrapped QueryContext failed and its
\* error came back, with no cursor and no monitor.
C19_Witness ==
    /\ WrappedFailed
    /\ last.op = "Stmt.QueryContext"
    /\ last.calls = <<W("QueryContext", "errDriver")>>
    /\ last.err = "errDriver" /\ last.val = "nil" /\ last.made = 0

\* The two entry points that build a connector.
OpeningOps == {"OpenConnector", "Open"}

\* C20: OpenConnector on the driver proxy, and Open which calls it, never
\* panic: for every underlying driver and every option list they return an
\* error or a connector (the monitored one, or the one over the data source
\* name when the driver has no connector-based opening).
C20_OpenConnectorNeverPanics ==
    (last.op \in OpeningOps) =>
        /\ last.err # "panic"
        /\ (last.err = "nil") => (last.val \in {"monitoredConnector", "dsnConnector"})

(***************************************************************************)
(* CancelSpec: the whole system, timers included, on connections with and  *)
(* without driver.ConnPrepareContext; PrepareContext is the call observed. *)
(***************************************************************************)
CancelEnv ==
    [connCaps |-> {{}, AllConnCaps}, stmtCaps |-> {AllStmtCaps},
     rowsCaps |-> {AllRowsCaps}, stackLens |-> {300}, errs |-> WrappedErrs,
     ctxs |-> Ctxs, watch |-> {"PrepareContext"},
     opts |-> <<>>]

CancelInit == InitWith(CancelEnv, {"plain", "ctx"}, {<<>>})

CancelSpec == CancelInit /\ [][Next]_vars

\* The last PrepareContext returned the cancellation error of its poll,
\* which only the fallback path produces.
Aborted == last.op = "PrepareContext" /\ last.err = "ctxErr"

\* C21: when PrepareContext on a connection without ConnPrepareContext
\* aborts with the cancellation error, it has invoked Prepare and then
\* Close on the statement obtained, once, returns no statement and has
\* created no monitor; the call leaves proxies, buffers, pool and log as
\* they were, and every warning ever logged belongs to a proxy that exists,
\* so none is logged for the aborted call.
C21_CancelledPrepareLeavesNothing ==
    /\ [](Aborted =>
            /\ ~Has(conns[last.on].caps, "ConnPrepareContext")
            /\ last.calls = <<W("Prepare", "nil"), W("Stmt.Close", "ignored")>>
            /\ last.val = "nil"
            /\ last.made = 0)
    /\ [](\A i \in DOMAIN log :
            /\ log[i].mon \in Monitors
            /\ log[i].resource = KindLabel(res[log[i].mon].kind))
    /\ [][(Aborted' /\ last' # last) => UNCHANGED <<res, bufs, pool, log>>]_vars

\* A PrepareContext cancelled during Prepare was aborted, and every timer
\* started before it has run: the log is final.
C21_Witness ==
    /\ Aborted
    /\ last.arg.ctx = "during"
    /\ Len(log) >= 1
    /\ \A m \in Monitors : res[m].monitor.fired

(***************************************************************************)
(* IterSpec: the whole system, timers included; the calls that walk a      *)
(* cursor are the ones observed.                                           *)
(***************************************************************************)
IterOps == {"Next", "NextResultSet", "HasNextResultSet"}

IterEnv ==
    [connCaps |-> {AllConnCaps}, stmtCaps |-> {AllStmtCaps},
     rowsCaps |-> {{}, AllRowsCaps}, stackLens |-> {300}, errs |-> WrappedErrs,
     ctxs |-> Ctxs, watch |-> IterOps,
     opts |-> <<>>]

IterInit == InitWith(IterEnv, {"plain", "ctx"}, {<<>>})

IterSpec == IterInit /\ [][Next]_vars

\* The methods of a proxy of this type that call markClosed.
ClosersOf(kind) ==
    CASE kind = "monitoredStmt" -> {"Stmt.Close"}
      [] kind = "monitoredRows" -> {"Rows.Close"}
      [] kind = "monitoredTx" -> {"Tx.Commit", "Tx.Rollback"}

\* The last call walked cursor r to the end of its rows or result sets, and
\* Close was never called on r.
AtEndUnclosed(r) ==
    /\ last.op \in {"Next", "NextResultSet"}
    /\ last.err = "EOF"
    /\ last.on = r
    /\ res[r].first = "none"

\* C22: a monitor's closed flag changes only in a step of Close (statement,
\* cursor) or Commit/Rollback (transaction) on its own proxy; a call that
\* walks a cursor leaves every flag as it was; and a cursor walked to the
\* end and never closed is not closed, so its timer logs its warning.
C22_OnlyClosersSetClosed ==
    /\ [][\A m \in Monitors :
            (res'[m].monitor.closed # res[m].monitor.closed) =>
                /\ res[m].busy = "none"
                /\ res'[m].busy \in ClosersOf(res[m].kind)]_vars
    /\ [][(last' # last /\ last'.op \in IterOps) =>
            \A m \in Monitors : res'[m].monitor.closed = res[m].monitor.closed]_vars
    /\ [](\A r \in Monitors : AtEndUnclosed(r) =>
            /\ ~res[r].monitor.closed
            /\ res[r].monitor.fired => Warnings(r) = 1)

\* A cursor whose Next reported io.EOF was never closed; its timer ran and
\* logged the one warning.
C22_Witness ==
    \E r \in Monitors :
        /\ AtEndUnclosed(r)
        /\ last.op = "Next"
        /\ res[r].monitor.fired
        /\ Warnings(r) = 1

====
